---- MODULE Spec2Model ----
(***************************************************************************)
(* Model of the record-repair engine of DataShifting3:                     *)
(*   src/data_shifting.py        (first revision)                          *)
(*   src/data_shifting_final.py  (hardened revision, suffix _final here)   *)
(*                                                                         *)
(* A Python str is a sequence of one-character strings.  Positions are     *)
(* 0-based as in the source: At(s, p) is s[p], Slice(s, a, b) is s[a:b].   *)
(***************************************************************************)
EXTENDS Integers, Sequences, FiniteSets, TLC

\* ------------------------------------------------------------------------
\* Characters and the str methods the source uses
\* ------------------------------------------------------------------------

Digits == {"0", "1", "2", "3", "4", "5", "6", "7", "8", "9"}

Letters ==
    {"a", "b", "c", "d", "e", "f", "g", "h", "i", "j", "k", "l", "m",
     "n", "o", "p", "q", "r", "s", "t", "u", "v", "w", "x", "y", "z",
     "A", "B", "C", "D", "E", "F", "G", "H", "I", "J", "K", "L", "M",
     "N", "O", "P", "Q", "R", "S", "T", "U", "V", "W", "X", "Y", "Z"}

Whitespace == {" ", "\t", "\n", "\r"}

isdigit(c) == c \in Digits

isspace(c) == c \in Whitespace

isalnum(c) == c \in (Letters \cup Digits)

Min(S) == CHOOSE x \in S : \A y \in S : x <= y

Max(S) == CHOOSE x \in S : \A y \in S : x >= y

At(s, p) == s[p + 1]

Slice(s, a, b) ==
    LET lo == IF a < 0 THEN 0 ELSE a
        hi == IF b > Len(s) THEN Len(s) ELSE b
    IN  IF lo >= hi THEN << >> ELSE SubSeq(s, lo + 1, hi)

\* s[p:p+len(tok)] == tok
StartsAt(s, p, tok) == Slice(s, p, p + Len(tok)) = tok

\* s.find(pat, start): the least position >= start where pat occurs, or -1
find(s, pat, start) ==
    LET hits == {p \in start .. (Len(s) - Len(pat)) : StartsAt(s, p, pat)}
    IN  IF hits = {} THEN -1 ELSE Min(hits)

\* s.rfind(pat, 0, end): the greatest position where pat occurs within s[0:end]
rfind(s, pat, end) ==
    LET hits == {p \in 0 .. (end - Len(pat)) : StartsAt(s, p, pat)}
    IN  IF hits = {} THEN -1 ELSE Max(hits)

endswith(s, suf) ==
    Len(s) >= Len(suf) /\ Slice(s, Len(s) - Len(suf), Len(s)) = suf

startswith(s, pre) == StartsAt(s, 0, pre)

\* the position after the whitespace run that starts at p
RECURSIVE SkipSpace(_, _)
SkipSpace(s, p) ==
    IF p < Len(s) /\ isspace(At(s, p)) THEN SkipSpace(s, p + 1) ELSE p

\* s.strip(), s.rstrip()
RECURSIVE rstrip(_)
rstrip(s) ==
    IF Len(s) > 0 /\ isspace(s[Len(s)]) THEN rstrip(SubSeq(s, 1, Len(s) - 1)) ELSE s

strip(s) == LET r == rstrip(s) IN Slice(r, SkipSpace(r, 0), Len(r))

\* s.rstrip('\r\n')
RECURSIVE rstrip_crlf(_)
rstrip_crlf(s) ==
    IF Len(s) > 0 /\ s[Len(s)] \in {"\r", "\n"}
    THEN rstrip_crlf(SubSeq(s, 1, Len(s) - 1))
    ELSE s

\* "if current_columns < 10" of should_combine_lines
low_column_threshold == 10

\* a variant that writes the singular
INCHES_singular == <<" ", "i", "n", "c", "h">>

\* the literal " inches"
INCHES == <<" ", "i", "n", "c", "h", "e", "s">>

\* ------------------------------------------------------------------------
\* data_shifting.py: fix_embedded_quotes, count_columns, clean_qualified_content
\* ------------------------------------------------------------------------

\* a variant that takes the qualifier after any character for an inch mark
after_digit_any(result, pos) == pos > 0

\* "if pos > 0 and result[pos-1].isdigit()"
after_digit(result, pos) == pos > 0 /\ isdigit(At(result, pos - 1))

\* the while True loop of fix_embedded_quotes, from scan position pos
RECURSIVE fix_embedded_quotes_loop(_, _, _, _)
fix_embedded_quotes_loop(result, pos0, delimiter, qualifier) ==
    LET double_quote_pattern == qualifier \o qualifier \o delimiter
        pos == find(result, double_quote_pattern, pos0)
        r == rfind(result, delimiter, pos)
        prev_delim_pos == IF r = -1 THEN 0 ELSE r + Len(delimiter)
        field_start == prev_delim_pos + Len(qualifier)
    IN  IF pos = -1 THEN result
        ELSE IF StartsAt(result, prev_delim_pos, qualifier)
        THEN IF pos > field_start
             THEN IF after_digit(result, pos)
                  THEN fix_embedded_quotes_loop(
                           Slice(result, 0, pos) \o INCHES
                               \o Slice(result, pos + Len(qualifier), Len(result)),
                           pos + Len(INCHES), delimiter, qualifier)
                  ELSE fix_embedded_quotes_loop(result, pos + Len(qualifier),
                                                delimiter, qualifier)
             ELSE fix_embedded_quotes_loop(result, pos + Len(qualifier),
                                           delimiter, qualifier)
        ELSE fix_embedded_quotes_loop(result, pos + Len(double_quote_pattern),
                                      delimiter, qualifier)

fix_embedded_quotes(line, delimiter, qualifier) ==
    fix_embedded_quotes_loop(line, 0, delimiter, qualifier)

\* The position where the scanning loops next leave their "regular character"
\* branch: the first position >= p at which the qualifier starts, or (outside a
\* quoted field) the delimiter starts; len(s) if there is none.  The loops
\* advance one character at a time up to it.
NextToken(s, p, in_quote, delimiter, qualifier) ==
    LET hits == {k \in p .. (Len(s) - 1) :
                    \/ StartsAt(s, k, qualifier)
                    \/ ~in_quote /\ StartsAt(s, k, delimiter)}
    IN  IF hits = {} THEN Len(s) ELSE Min(hits)

\* the scanning loop shared by the two revisions' count_columns, on the
\* already normalised line
RECURSIVE count_scan(_, _, _, _, _, _)
count_scan(fixed_line, current_pos, in_quoted_field, column_count, delimiter, qualifier) ==
    IF current_pos >= Len(fixed_line) THEN column_count
    ELSE IF StartsAt(fixed_line, current_pos, qualifier)
    THEN IF ~in_quoted_field
         THEN count_scan(fixed_line, current_pos + Len(qualifier), TRUE,
                         column_count, delimiter, qualifier)
         ELSE LET next_pos == SkipSpace(fixed_line, current_pos + Len(qualifier))
              IN  IF next_pos >= Len(fixed_line)
                  THEN count_scan(fixed_line, next_pos, FALSE, column_count,
                                  delimiter, qualifier)
                  ELSE IF StartsAt(fixed_line, next_pos, delimiter)
                  THEN count_scan(fixed_line, next_pos + Len(delimiter), FALSE,
                                  column_count + 1, delimiter, qualifier)
                  ELSE count_scan(fixed_line, current_pos + Len(qualifier), TRUE,
                                  column_count, delimiter, qualifier)
    ELSE IF ~in_quoted_field /\ StartsAt(fixed_line, current_pos, delimiter)
    THEN count_scan(fixed_line, current_pos + Len(delimiter), FALSE,
                    column_count + 1, delimiter, qualifier)
    ELSE \* regular characters: current_pos += 1, repeated
         count_scan(fixed_line,
                    NextToken(fixed_line, current_pos + 1, in_quoted_field,
                              delimiter, qualifier),
                    in_quoted_field, column_count, delimiter, qualifier)

count_columns(line, delimiter, qualifier) ==
    count_scan(fix_embedded_quotes(line, delimiter, qualifier), 0, FALSE, 1,
               delimiter, qualifier)

\* field_content.replace('\t', ' ')
replace_tabs(s) == [k \in 1 .. Len(s) |-> IF s[k] = "\t" THEN " " ELSE s[k]]

\* a variant that leaves the runs of spaces as they are
collapse_nothing(s) == s

\* re.sub(r' +', ' ', s): every run of spaces becomes one space
RECURSIVE collapse_spaces(_)
collapse_spaces(s) ==
    LET hits == {k \in 1 .. (Len(s) - 1) : s[k] = " " /\ s[k + 1] = " "}
    IN  IF hits = {} THEN s
        ELSE SubSeq(s, 1, Min(hits) - 1)
                 \o collapse_spaces(SubSeq(s, Min(hits) + 1, Len(s)))

\* what the "regular character" branch of clean_qualified_content adds inside
\* a quoted field for the characters s[a:b]: line breaks and tabs as a space
quoted_chars(s, a, b) ==
    [k \in 1 .. (b - a) |->
        IF s[a + k] \in {"\n", "\r", "\t"} THEN " " ELSE s[a + k]]

\* a variant that leaves the closing qualifier out
closed_field_unqualified(current_field, processed_content, qualifier) ==
    current_field \o processed_content

\* current_field += processed_content + qualifier
closed_field(current_field, processed_content, qualifier) ==
    current_field \o processed_content \o qualifier

\* the scanning loop shared by the two revisions' clean_qualified_content;
\* cleaned_parts is kept joined
RECURSIVE clean_scan(_, _, _, _, _, _, _, _)
clean_scan(fixed_line, current_pos, in_quote, cleaned_parts, current_field, field_content, delimiter, qualifier) ==
    IF current_pos >= Len(fixed_line) THEN cleaned_parts \o current_field
    ELSE IF StartsAt(fixed_line, current_pos, qualifier)
    THEN IF ~in_quote
         THEN clean_scan(fixed_line, current_pos + Len(qualifier), TRUE,
                         cleaned_parts, current_field \o qualifier, << >>,
                         delimiter, qualifier)
         ELSE LET next_pos == SkipSpace(fixed_line, current_pos + Len(qualifier))
                  processed_content == collapse_spaces(replace_tabs(field_content))
                  closed == closed_field(current_field, processed_content, qualifier)
              IN  IF next_pos >= Len(fixed_line)
                  THEN clean_scan(fixed_line, next_pos, FALSE,
                                  cleaned_parts \o closed, << >>, field_content,
                                  delimiter, qualifier)
                  ELSE IF StartsAt(fixed_line, next_pos, delimiter)
                  THEN clean_scan(fixed_line, next_pos + Len(delimiter), FALSE,
                                  cleaned_parts \o closed \o delimiter, << >>,
                                  field_content, delimiter, qualifier)
                  ELSE clean_scan(fixed_line, current_pos + Len(qualifier), TRUE,
                                  cleaned_parts, current_field,
                                  field_content \o qualifier, delimiter, qualifier)
    ELSE IF ~in_quote /\ StartsAt(fixed_line, current_pos, delimiter)
    THEN clean_scan(fixed_line, current_pos + Len(delimiter), FALSE,
                    cleaned_parts \o current_field \o delimiter, << >>,
                    field_content, delimiter, qualifier)
    ELSE \* regular characters: copied one at a time up to the next token
         LET stop == NextToken(fixed_line, current_pos + 1, in_quote,
                               delimiter, qualifier)
         IN  IF in_quote
             THEN clean_scan(fixed_line, stop, TRUE, cleaned_parts, current_field,
                             field_content \o quoted_chars(fixed_line, current_pos, stop),
                             delimiter, qualifier)
             ELSE clean_scan(fixed_line, stop, FALSE, cleaned_parts,
                             current_field \o Slice(fixed_line, current_pos, stop),
                             field_content, delimiter, qualifier)

clean_qualified_content(line, delimiter, qualifier) ==
    clean_scan(fix_embedded_quotes(line, delimiter, qualifier), 0, FALSE, << >>,
               << >>, << >>, delimiter, qualifier)

\* ------------------------------------------------------------------------
\* data_shifting_final.py: fix_embedded_quotes, count_columns,
\* is_line_complete, should_combine_lines, clean_qualified_content
\* ------------------------------------------------------------------------

\* the position after the run of digits (\d+) that starts at p
RECURSIVE DigitRunEnd(_, _)
DigitRunEnd(s, p) ==
    IF p < Len(s) /\ isdigit(At(s, p)) THEN DigitRunEnd(s, p + 1) ELSE p

\* where group 1 of inch_pattern, (\d+(?:-\d+/\d+)?), ends when matched at p
\* (-1: no match).  The greedy runs cannot give a character back: what
\* follows a shortened run is a digit, which matches none of '-', '/', '"'.
inch_group1_end(s, p) ==
    IF ~(p < Len(s) /\ isdigit(At(s, p))) THEN -1
    ELSE LET e1 == DigitRunEnd(s, p)
             n1 == DigitRunEnd(s, e1 + 1)
             d1 == DigitRunEnd(s, n1 + 1)
             fraction == /\ e1 < Len(s) /\ At(s, e1) = "-"
                         /\ n1 > e1 + 1
                         /\ n1 < Len(s) /\ At(s, n1) = "/"
                         /\ d1 > n1 + 1
         IN  IF fraction /\ d1 < Len(s) /\ At(s, d1) = "\"" THEN d1 ELSE e1

\* the match of inch_pattern = (\d+(?:-\d+/\d+)?)"(\s*[A-Za-z0-9]|\s*$) at p:
\* <<position of the '"', end of the match>>, or <<-1, -1>>.  The pattern
\* names the double-quote character itself, whatever the qualifier is.
inch_match(s, p) ==
    LET q == inch_group1_end(s, p)
        w == SkipSpace(s, q + 1)
    IN  IF q = -1 \/ ~(q < Len(s) /\ At(s, q) = "\"") THEN <<-1, -1>>
        ELSE IF w < Len(s) /\ isalnum(At(s, w)) THEN <<q, w + 1>>
        ELSE IF w >= Len(s) THEN <<q, Len(s)>>
        ELSE <<-1, -1>>

\* re.sub(inch_pattern, r'\1 inches\2', s) from position p on: leftmost
\* matches, none overlapping
RECURSIVE inch_sub(_, _)
inch_sub(s, p) ==
    LET hits == {k \in p .. (Len(s) - 1) : inch_match(s, k)[1] # -1}
    IN  IF hits = {} THEN Slice(s, p, Len(s))
        ELSE LET k == Min(hits)
                 m == inch_match(s, k)
             IN  Slice(s, p, m[1]) \o INCHES \o Slice(s, m[1] + 1, m[2])
                     \o inch_sub(s, m[2])

\* a variant that drops the last qualifier of every doubled qualifier that
\* ends the line
strip_trailing_qualifier_always(result, qualifier) ==
    IF endswith(result, qualifier \o qualifier)
    THEN Slice(result, 0, Len(result) - Len(qualifier))
    ELSE result

\* "Handle double quotes at end of line": the last step of the final
\* revision's fix_embedded_quotes
strip_trailing_qualifier(result, qualifier) ==
    IF endswith(result, qualifier \o qualifier)
    THEN LET last_single_quote ==
                 rfind(result, qualifier, Len(result) - Len(qualifier))
             content_between ==
                 Slice(result, last_single_quote + Len(qualifier),
                       Len(result) - Len(qualifier))
         IN  IF last_single_quote # -1 /\ strip(content_between) # << >>
             THEN Slice(result, 0, Len(result) - Len(qualifier))
             ELSE result
    ELSE result

fix_embedded_quotes_final(line, delimiter, qualifier) ==
    strip_trailing_qualifier(
        fix_embedded_quotes_loop(inch_sub(line, 0), 0, delimiter, qualifier),
        qualifier)

count_columns_final(line, delimiter, qualifier) ==
    count_scan(fix_embedded_quotes_final(line, delimiter, qualifier), 0, FALSE, 1,
               delimiter, qualifier)

clean_qualified_content_final(line, delimiter, qualifier) ==
    clean_scan(fix_embedded_quotes_final(line, delimiter, qualifier), 0, FALSE,
               << >>, << >>, << >>, delimiter, qualifier)

\* the loop of is_line_complete: the value of in_quote at the end of the line
RECURSIVE in_quote_at_end(_, _, _, _, _)
in_quote_at_end(s, current_pos, in_quote, delimiter, qualifier) ==
    IF current_pos >= Len(s) THEN in_quote
    ELSE IF StartsAt(s, current_pos, qualifier)
    THEN IF ~in_quote
         THEN in_quote_at_end(s, current_pos + Len(qualifier), TRUE,
                              delimiter, qualifier)
         ELSE LET next_pos == SkipSpace(s, current_pos + Len(qualifier))
              IN  in_quote_at_end(s, current_pos + Len(qualifier),
                      ~(next_pos >= Len(s) \/ StartsAt(s, next_pos, delimiter)),
                      delimiter, qualifier)
    ELSE in_quote_at_end(s, NextToken(s, current_pos + 1, TRUE, delimiter, qualifier),
                         in_quote, delimiter, qualifier)

is_line_complete(line, delimiter, qualifier) ==
    ~in_quote_at_end(line, 0, FALSE, delimiter, qualifier)

should_combine_lines(current_line, next_line, delimiter, qualifier) ==
    LET current_ends_with_quote == endswith(rstrip(current_line), qualifier)
        next_starts_with_content ==
            strip(next_line) # << >> /\ ~startswith(strip(next_line), qualifier)
        current_columns == count_columns_final(current_line, delimiter, qualifier)
    IN  \/ current_ends_with_quote /\ next_starts_with_content
        \/ current_columns < low_column_threshold

\* ------------------------------------------------------------------------
\* detect_delimiter_and_qualifier
\* ------------------------------------------------------------------------

\* Python's None for an argument that was not supplied
None == <<"None">>

PIPE_CARET_PIPE == <<"|", "^", "|">>

DQUOTE == <<"\"">>

\* delimiters = ['|^|', ',', '|', '\t', ';'] and qualifiers = ['"', "'"]
delimiters == <<PIPE_CARET_PIPE, <<",">>, <<"|">>, <<"\t">>, <<";">>>>

qualifiers == <<DQUOTE, <<"'">>>>

\* a variant that keeps the last candidate found
last_contained(candidates, first_line) ==
    LET hits == {k \in 1 .. Len(candidates) : find(first_line, candidates[k], 0) # -1}
    IN  IF hits = {} THEN None ELSE candidates[Max(hits)]

\* for candidate in candidates: if candidate in first_line: ...; break
first_contained(candidates, first_line) ==
    LET hits == {k \in 1 .. Len(candidates) : find(first_line, candidates[k], 0) # -1}
    IN  IF hits = {} THEN None ELSE candidates[Min(hits)]

detect_delimiter_and_qualifier(first_line) ==
    <<first_contained(delimiters, first_line), first_contained(qualifiers, first_line)>>

\* a or b or c, for tokens: None and the empty string are false
py_or(a, b, c) ==
    IF a # None /\ a # << >> THEN a
    ELSE IF b # None /\ b # << >> THEN b
    ELSE c

\* ------------------------------------------------------------------------
\* fix_data_shifting: the state of one run
\* ------------------------------------------------------------------------

VARIABLES
    final,                    \* which revision runs: FALSE is data_shifting.py,
                              \* TRUE is data_shifting_final.py
    lines,                    \* file.readlines(): physical lines, terminators kept
    error_path,               \* whether an error-log destination was supplied
    error_transactions_path,  \* whether an error-transactions destination was supplied
    delimiter, qualifier,     \* the arguments, then the tokens in use
    pc,                       \* where the run is
    header_line, header_count,
    corrected_lines, uncorrectable_lines, error_logs, error_transactions,
    i,                        \* index of the current physical line (0-based)
    combined_line, next_index, original_lines, error_transaction_lines,
    combine_attempts,         \* the locals of a merge
    final_lines,
    output_file, error_file, error_transactions_file,  \* what was written
    history,                  \* history of the pass: how it disposed of each
                              \* physical line, and where each record of
                              \* corrected_lines came from
    line, called, returned,   \* a direct call of one of the functions: its
                              \* argument, its name, what it returned
    scan                      \* the locals of the scanning loop of such a call,
                              \* when the call is followed one iteration at a time

run_vars ==
    <<final, lines, error_path, error_transactions_path, delimiter, qualifier, pc,
      header_line, header_count, corrected_lines, uncorrectable_lines,
      error_logs, error_transactions, i, combined_line, next_index,
      original_lines, error_transaction_lines, combine_attempts, final_lines,
      output_file, error_file, error_transactions_file, history>>

call_vars == <<line, called, returned, scan>>

vars == <<run_vars, call_vars>>

\* max_combine_attempts = 10
max_combine_attempts == 10

\* a file that was not written
NotWritten == [written |-> FALSE, content |-> << >>]

\* an entry of error_logs: the f-string's kind and its arguments
LogEntry(kind, a, b, text) == [kind |-> kind, a |-> a, b |-> b, text |-> text]

SEPARATOR == LogEntry("separator", 0, 0, << >>)

\* lines[k].rstrip('\r\n')
line_at(k) == rstrip_crlf(At(lines, k))

current_line == line_at(i)

\* the running revision's count_columns and clean_qualified_content
columns(text) ==
    IF final THEN count_columns_final(text, delimiter, qualifier)
    ELSE count_columns(text, delimiter, qualifier)

cleaned(text) ==
    IF final THEN clean_qualified_content_final(text, delimiter, qualifier)
    ELSE clean_qualified_content(text, delimiter, qualifier)

\* a variant that also takes a line with more columns than the header
has_header_count_or_more(text) == columns(text) >= header_count

\* "column_count == header_count", of the line or of the combined line
has_header_count(text) == columns(text) = header_count

\* a variant that keeps the line break between the physical lines
joined_by_break(combined, next_line) == combined \o <<"\n">> \o next_line

\* a variant in which the candidate starts again from the next line
joined_restarting(combined, next_line) == next_line

\* combined_line + " " + next_line
joined(combined, next_line) == combined \o <<" ">> \o next_line

\* data_shifting.py, "Manually check for balanced quotes": the value of
\* in_quote after the loop, which moves j by one whatever it meets
RECURSIVE open_qualifiers_scan(_, _, _, _, _)
open_qualifiers_scan(s, j, in_quote, delim, qual) ==
    LET hits == {k \in j .. (Len(s) - 1) : StartsAt(s, k, qual)}
        k == Min(hits)
        next_pos == SkipSpace(s, k + Len(qual))
    IN  IF hits = {} THEN in_quote
        ELSE IF in_quote
        THEN open_qualifiers_scan(s, k + 1,
                 ~(next_pos >= Len(s) \/ StartsAt(s, next_pos, delim)), delim, qual)
        ELSE open_qualifiers_scan(s, k + 1, TRUE, delim, qual)

open_qualifiers(text) == open_qualifiers_scan(text, 0, FALSE, delimiter, qualifier)

\* whether the mismatching current line starts a merge
continuable ==
    IF final
    THEN /\ i + 1 < Len(lines)
         /\ \/ ~is_line_complete(current_line, delimiter, qualifier)
            \/ should_combine_lines(current_line, line_at(i + 1), delimiter, qualifier)
    ELSE open_qualifiers(current_line) /\ i + 1 < Len(lines)

\* a variant without the limit on the attempts
merge_loop_test_unbounded ==
    /\ next_index < Len(lines)
    /\ ~has_header_count(combined_line)

\* the test of the merge's while loop
merge_loop_test ==
    /\ next_index < Len(lines)
    /\ ~has_header_count(combined_line)
    /\ final => combine_attempts < max_combine_attempts

\* write_error_log, write_error_transactions and the writing of the output
\* a variant that writes no file
write_error_log_nowhere(logs) == NotWritten

write_error_log(logs) ==
    [written |-> TRUE,
     content |-> IF final THEN logs
                 ELSE <<LogEntry("title", 0, 0, << >>)>> \o logs]

write_lines(text_lines) == [written |-> TRUE, content |-> text_lines]

\* history: physical line k was disposed of as `how`
mark(h, k, how) == [h EXCEPT !.consumed[k + 1] = Append(@, how)]

\* history: a record made of the physical lines from .. to joined corrected_lines
emit(h, kind, from, to) ==
    [h EXCEPT !.emitted = Append(@, [kind |-> kind, from |-> from, to |-> to])]

\* ------------------------------------------------------------------------
\* fix_data_shifting: the steps of one run
\* ------------------------------------------------------------------------

merge_locals_reset ==
    /\ combined_line' = << >>
    /\ next_index' = 0
    /\ original_lines' = << >>
    /\ error_transaction_lines' = << >>
    /\ combine_attempts' = 0

\* reading succeeded; "if not lines" up to "i = 1"
ReadInput ==
    /\ UNCHANGED call_vars
    /\ pc = "start"
    /\ IF lines = << >>
       THEN /\ error_logs' = <<LogEntry("empty", 0, 0, << >>)>>
            /\ error_file' = IF error_path THEN write_error_log(error_logs')
                             ELSE error_file
            /\ pc' = "done"
            /\ UNCHANGED <<delimiter, qualifier, header_line, header_count,
                           corrected_lines, error_transactions, i, history>>
       ELSE LET header == strip(lines[1])
                detected == detect_delimiter_and_qualifier(header)
                detect == delimiter = None \/ qualifier = None
            IN  /\ header_line' = header
                /\ error_transactions' =
                       IF error_transactions_path THEN <<header>> ELSE << >>
                /\ delimiter' = IF detect
                                THEN py_or(delimiter, detected[1], PIPE_CARET_PIPE)
                                ELSE delimiter
                /\ qualifier' = IF detect
                                THEN py_or(qualifier, detected[2], DQUOTE)
                                ELSE qualifier
                /\ header_count' =
                       IF final THEN count_columns_final(header, delimiter', qualifier')
                       ELSE count_columns(header, delimiter', qualifier')
                /\ corrected_lines' = <<header>>
                /\ history' = emit(mark(history, 0, "header"), "header", 0, 0)
                /\ i' = 1
                /\ pc' = "loop"
                /\ UNCHANGED <<error_logs, error_file>>
    /\ UNCHANGED <<final, lines, error_path, error_transactions_path, uncorrectable_lines,
                   combined_line, next_index, original_lines,
                   error_transaction_lines, combine_attempts, final_lines,
                   output_file, error_transactions_file>>

\* "Skip empty lines"
SkipBlank ==
    /\ UNCHANGED call_vars
    /\ pc = "loop" /\ i < Len(lines)
    /\ strip(current_line) = << >>
    /\ i' = i + 1
    /\ history' = mark(history, i, "blank")
    /\ UNCHANGED <<final, lines, error_path, error_transactions_path, delimiter, qualifier,
                   pc, header_line, header_count, corrected_lines,
                   uncorrectable_lines, error_logs, error_transactions,
                   combined_line, next_index, original_lines,
                   error_transaction_lines, combine_attempts, final_lines,
                   output_file, error_file, error_transactions_file>>

\* "If the column count matches header count, add the line as is"
AcceptLine ==
    /\ UNCHANGED call_vars
    /\ pc = "loop" /\ i < Len(lines)
    /\ strip(current_line) # << >>
    /\ has_header_count(current_line)
    /\ corrected_lines' = Append(corrected_lines, current_line)
    /\ i' = i + 1
    /\ history' = emit(mark(history, i, "accepted"), "accepted", i, i)
    /\ UNCHANGED <<final, lines, error_path, error_transactions_path, delimiter, qualifier,
                   pc, header_line, header_count, uncorrectable_lines, error_logs,
                   error_transactions, combined_line, next_index, original_lines,
                   error_transaction_lines, combine_attempts, final_lines,
                   output_file, error_file, error_transactions_file>>

\* "Start building a combined line"
StartMerge ==
    /\ UNCHANGED call_vars
    /\ pc = "loop" /\ i < Len(lines)
    /\ strip(current_line) # << >>
    /\ ~has_header_count(current_line)
    /\ continuable
    /\ combined_line' = current_line
    /\ next_index' = i + 1
    /\ original_lines' = <<LogEntry("line", i + 1, 0, current_line)>>
    /\ error_transaction_lines' = <<current_line>>
    /\ combine_attempts' = 0
    /\ pc' = "merge"
    /\ UNCHANGED <<final, lines, error_path, error_transactions_path, delimiter, qualifier,
                   header_line, header_count, corrected_lines, uncorrectable_lines,
                   error_logs, error_transactions, i, final_lines, output_file,
                   error_file, error_transactions_file, history>>

\* one iteration of "Continue adding lines until we have matching column
\* count or no more lines"
MergeAppend ==
    /\ UNCHANGED call_vars
    /\ pc = "merge"
    /\ merge_loop_test
    /\ LET next_line == line_at(next_index)
           candidate == joined(combined_line, next_line)
       IN  /\ original_lines' =
                  Append(original_lines, LogEntry("line", next_index + 1, 0, next_line))
           /\ error_transaction_lines' = Append(error_transaction_lines, next_line)
           /\ combined_line' = candidate
           /\ history' = mark(history, next_index, "appended")
           /\ IF has_header_count(candidate)
              THEN \* break
                   /\ pc' = "merged"
                   /\ UNCHANGED <<next_index, combine_attempts>>
              ELSE /\ next_index' = next_index + 1
                   /\ combine_attempts' = IF final THEN combine_attempts + 1
                                          ELSE combine_attempts
                   /\ pc' = "merge"
    /\ UNCHANGED <<final, lines, error_path, error_transactions_path, delimiter, qualifier,
                   header_line, header_count, corrected_lines, uncorrectable_lines,
                   error_logs, error_transactions, i, final_lines, output_file,
                   error_file, error_transactions_file>>

\* the merge loop is over (by break or by its test)
merge_loop_over ==
    \/ pc = "merged"
    \/ pc = "merge" /\ ~merge_loop_test

\* "If we now have the correct count, consider it fixed"
MergeFixed ==
    /\ UNCHANGED call_vars
    /\ merge_loop_over
    /\ has_header_count(combined_line)
    /\ corrected_lines' = Append(corrected_lines, combined_line)
    /\ error_logs' = error_logs
           \o <<LogEntry("fixed", i + 1, next_index + 1, << >>)>>
           \o original_lines
           \o <<LogEntry("combined", 0, 0, combined_line), SEPARATOR>>
    /\ history' = emit(mark(history, i, "merged"), "merged", i, next_index)
    /\ i' = next_index + 1
    /\ pc' = "loop"
    /\ merge_locals_reset
    /\ UNCHANGED <<final, lines, error_path, error_transactions_path, delimiter, qualifier,
                   header_line, header_count, uncorrectable_lines,
                   error_transactions, final_lines, output_file, error_file,
                   error_transactions_file>>

\* "Couldn't fix it"
MergeFailed ==
    /\ UNCHANGED call_vars
    /\ merge_loop_over
    /\ ~has_header_count(combined_line)
    /\ error_logs' = error_logs
           \o <<LogEntry("unfixed", i + 1, columns(current_line), << >>)>>
           \o original_lines
           \o <<SEPARATOR>>
    /\ uncorrectable_lines' = Append(uncorrectable_lines, <<i + 1, current_line>>)
    /\ corrected_lines' = Append(corrected_lines, current_line)
    /\ error_transactions' = error_transactions \o error_transaction_lines
    /\ history' = emit(mark(history, i, "unmerged"), "unmerged", i, i)
    /\ i' = next_index + 1
    /\ pc' = "loop"
    /\ merge_locals_reset
    /\ UNCHANGED <<final, lines, error_path, error_transactions_path, delimiter, qualifier,
                   header_line, header_count, final_lines, output_file, error_file,
                   error_transactions_file>>

\* "Single line with incorrect columns that can't be fixed"
\* a variant that logs the message alone
single_line_group_message_only(number, column_count, text) ==
    <<LogEntry("mismatch", number, column_count, << >>)>>

\* the three entries logged for a single line that cannot be fixed
single_line_group(number, column_count, text) ==
    <<LogEntry("mismatch", number, column_count, << >>),
      LogEntry("line", number, 0, text), SEPARATOR>>

SingleLineError ==
    /\ UNCHANGED call_vars
    /\ pc = "loop" /\ i < Len(lines)
    /\ strip(current_line) # << >>
    /\ ~has_header_count(current_line)
    /\ ~continuable
    /\ error_logs' = error_logs
           \o single_line_group(i + 1, columns(current_line), current_line)
    /\ uncorrectable_lines' = Append(uncorrectable_lines, <<i + 1, current_line>>)
    /\ corrected_lines' = Append(corrected_lines, current_line)
    /\ error_transactions' = Append(error_transactions, current_line)
    /\ history' = emit(mark(history, i, "single"), "single", i, i)
    /\ i' = i + 1
    /\ UNCHANGED <<final, lines, error_path, error_transactions_path, delimiter, qualifier,
                   pc, header_line, header_count, combined_line, next_index,
                   original_lines, error_transaction_lines, combine_attempts,
                   final_lines, output_file, error_file, error_transactions_file>>

\* "Clean the content of each line", after the while loop has ended
CleanLines ==
    /\ UNCHANGED call_vars
    /\ pc = "loop" /\ i >= Len(lines)
    /\ final_lines' = [k \in 1 .. Len(corrected_lines) |->
                          cleaned(corrected_lines[k])]
    /\ pc' = "write"
    /\ UNCHANGED <<final, lines, error_path, error_transactions_path, delimiter, qualifier,
                   header_line, header_count, corrected_lines, uncorrectable_lines,
                   error_logs, error_transactions, i, combined_line, next_index,
                   original_lines, error_transaction_lines, combine_attempts,
                   output_file, error_file, error_transactions_file, history>>

\* "Write the corrected data to the output file", the error log and the
\* error transactions
\* a variant that counts the header as an error transaction
has_error_transactions_or_header == Len(error_transactions) >= 1

\* "> 1 because header is always included"
has_error_transactions == Len(error_transactions) > 1

WriteOutputs ==
    /\ UNCHANGED call_vars
    /\ pc = "write"
    /\ output_file' = write_lines(final_lines)
    /\ error_file' = IF error_logs # << >> /\ error_path
                     THEN write_error_log(error_logs) ELSE error_file
    /\ error_transactions_file' =
           IF has_error_transactions /\ error_transactions_path
           THEN write_lines(error_transactions) ELSE error_transactions_file
    /\ pc' = "done"
    /\ UNCHANGED <<final, lines, error_path, error_transactions_path, delimiter, qualifier,
                   header_line, header_count, corrected_lines, uncorrectable_lines,
                   error_logs, error_transactions, i, combined_line, next_index,
                   original_lines, error_transaction_lines, combine_attempts,
                   final_lines, history>>

\* ------------------------------------------------------------------------
\* The inputs of the runs
\* ------------------------------------------------------------------------

MaxPre == 2

MaxFill == 1

MaxOver == 1

MaxTokens == 5

MaxFields == 3

\* all sequences over S of length at most n
RECURSIVE SeqsUpTo(_, _)
SeqsUpTo(S, n) ==
    IF n = 0 THEN {<< >>}
    ELSE LET shorter == SeqsUpTo(S, n - 1)
         IN  shorter \cup {Append(t, x) : t \in {u \in shorter : Len(u) = n - 1}, x \in S}

RECURSIVE Flatten(_)
Flatten(ss) == IF ss = << >> THEN << >> ELSE Head(ss) \o Flatten(Tail(ss))

\* the header and the data lines the input files are made of
HEADER == <<"a">> \o PIPE_CARET_PIPE \o <<"b">> \o PIPE_CARET_PIPE \o <<"c">>

\* "a"|^|"b<tab> c" |^|"c": complete, with whitespace for the cleaner
GOOD == <<"\"", "a", "\"">> \o PIPE_CARET_PIPE
            \o <<"\"", "b", "\t", " ", "c", "\"", " ">>
            \o PIPE_CARET_PIPE \o <<"\"", "c", "\"">>

\* "a"|^|"b"|^|"5": complete and clean, the last field a number
GOOD5 == <<"\"", "a", "\"">> \o PIPE_CARET_PIPE \o <<"\"", "b", "\"">>
            \o PIPE_CARET_PIPE \o <<"\"", "5", "\"">>

\* "a"|^|"b: the record breaks inside its second field
OPEN == <<"\"", "a", "\"">> \o PIPE_CARET_PIPE \o <<"\"", "b">>

\* c"|^|"d": the rest of such a record
CLOSE == <<"c", "\"">> \o PIPE_CARET_PIPE \o <<"\"", "d", "\"">>

BLANK == <<" ">>

\* x: one bare column
SHORT == <<"x">>

\* y: text that completes nothing
FILL == <<"y">>

Pool == {GOOD, OPEN, CLOSE, BLANK, SHORT}

PoolFinal == Pool \cup {GOOD5}

\* readlines() of a file with these lines, each ended by a line break
AsRead(text_lines) == [k \in 1 .. Len(text_lines) |-> text_lines[k] \o <<"\n">>]

\* header, at most MaxPre lines, a run of at most max_fill FILL lines, and
\* possibly one more line
InputFiles(pool, fill_counts) ==
    {AsRead(<<HEADER>> \o pre \o [k \in 1 .. n |-> FILL] \o suf) :
        pre \in SeqsUpTo(pool, MaxPre),
        n \in fill_counts,
        suf \in {<< >>} \cup {<<l>> : l \in pool}}
    \cup {<< >>}

\* short runs of FILL lines
FewFills == 0 .. MaxFill

\* runs of FILL lines about as long as a merge may get
ManyFills == (max_combine_attempts - 1) .. (max_combine_attempts + MaxOver)

\* no scanning loop is being followed
NoScan ==
    [at |-> "idle", fixed_line |-> << >>, current_pos |-> 0, next_pos |-> 0,
     in_quote |-> FALSE, column_count |-> 0, cleaned_parts |-> << >>,
     current_field |-> << >>, field_content |-> << >>]

NoCall ==
    /\ line = << >>
    /\ called = "none"
    /\ returned = [count |-> 0, text |-> << >>, flag |-> FALSE]
    /\ scan = NoScan

\* error_path and error_transactions_path default to None: each is supplied or not
AnyDestinations == BOOLEAN \X BOOLEAN

\* main supplies both
BothDestinations == {<<TRUE, TRUE>>}

\* main passes --delimiter and --qualifier, which default to '|^|' and '"'
DefaultTokens == {<<PIPE_CARET_PIPE, DQUOTE>>}

InitRun(revision, files, destinations, configured) ==
    /\ final = revision
    /\ lines \in files
    /\ \E supplied \in destinations :
           /\ error_path = supplied[1]
           /\ error_transactions_path = supplied[2]
    /\ \E tokens \in configured :
           /\ delimiter = tokens[1]
           /\ qualifier = tokens[2]
    /\ pc = "start"
    /\ header_line = << >>
    /\ header_count = 0
    /\ corrected_lines = << >>
    /\ uncorrectable_lines = << >>
    /\ error_logs = << >>
    /\ error_transactions = << >>
    /\ i = 0
    /\ combined_line = << >>
    /\ next_index = 0
    /\ original_lines = << >>
    /\ error_transaction_lines = << >>
    /\ combine_attempts = 0
    /\ final_lines = << >>
    /\ output_file = NotWritten
    /\ error_file = NotWritten
    /\ error_transactions_file = NotWritten
    /\ history = [consumed |-> [k \in 1 .. Len(lines) |-> << >>],
                  emitted |-> << >>,
                  configured |-> <<delimiter, qualifier>>]
    /\ NoCall

\* a run of data_shifting.py's fix_data_shifting
Init == InitRun(FALSE, InputFiles(Pool, FewFills), AnyDestinations, DefaultTokens)

Next ==
    \/ ReadInput
    \/ SkipBlank
    \/ AcceptLine
    \/ StartMerge
    \/ MergeAppend
    \/ MergeFixed
    \/ MergeFailed
    \/ SingleLineError
    \/ CleanLines
    \/ WriteOutputs

Spec == Init /\ [][Next]_vars

\* a run of data_shifting_final.py's fix_data_shifting
InitFinal ==
    InitRun(TRUE, InputFiles(PoolFinal, FewFills \cup ManyFills), BothDestinations,
            DefaultTokens)

SpecFinal == InitFinal /\ [][Next]_vars

\* where the run is: every step of Next changes it
position == <<pc, i, next_index>>

\* the run moves on; possible exactly while the call has not returned
Moves ==
    /\ pc \notin {"done", "call"}
    /\ pc' \in {"loop", "merge", "merged", "write", "done"}
    /\ i' \in 0 .. (Len(lines) + 1)
    /\ next_index' \in 0 .. (Len(lines) + 1)

\* The run is one sequential call that nothing suspends: while it has not
\* returned it takes its next step.  This is weak fairness of Next, stated on
\* the position of the run, which is all that ENABLED has to look at.
FairSpecFinal == SpecFinal /\ WF_position(Moves)

\* a run of either revision
SpecBoth == (Init \/ InitFinal) /\ [][Next]_vars

\* ------------------------------------------------------------------------
\* Direct calls of the functions, as the test scripts make them
\* ------------------------------------------------------------------------

TAB == <<"\t">>

SQUOTE == <<"'">>

\* the (delimiter, qualifier) pairs the calls are made with
TokenPairs == {<<PIPE_CARET_PIPE, DQUOTE>>, <<TAB, DQUOTE>>, <<PIPE_CARET_PIPE, SQUOTE>>}

\* lines of at most MaxTokens tokens: the two configured tokens, a letter, a
\* digit, a space
TokenLines(delim, qual) ==
    {Flatten(t) : t \in SeqsUpTo({delim, qual, <<"a">>, <<"5">>, <<" ">>}, MaxTokens)}

\* fields.join(delim)
RECURSIVE Join(_, _)
Join(fields, delim) ==
    IF fields = << >> THEN << >>
    ELSE IF Len(fields) = 1 THEN fields[1]
    ELSE fields[1] \o delim \o Join(Tail(fields), delim)

\* fields: bare, qualified, qualified holding the delimiter, padded, holding a
\* quotation, ending in an inch mark
FieldTexts(delim, qual) ==
    {<<"a">>,
     qual \o <<"a">> \o qual,
     qual \o <<"5">> \o qual,
     qual \o <<"a">> \o delim \o <<"b">> \o qual,
     qual \o <<"a", " ">> \o qual \o <<"b">> \o qual \o qual,
     qual \o <<"a", "5">> \o qual \o qual}

\* records of at most MaxFields such fields
RecordLines(delim, qual) ==
    {Join(fs, delim) : fs \in SeqsUpTo(FieldTexts(delim, qual), MaxFields)}

\* "1"|^|"ADB will apply SSL Certificates for WGU Complio "Splash pages""|^|"Paid"
splash_case ==
    <<"\"", "1", "\"", "|", "^", "|", "\"", "A", "D", "B", " ", "w", "i", "l", "l",
      " ", "a", "p", "p", "l", "y", " ", "S", "S", "L", " ", "C", "e", "r", "t",
      "i", "f", "i", "c", "a", "t", "e", "s", " ", "f", "o", "r", " ", "W", "G",
      "U", " ", "C", "o", "m", "p", "l", "i", "o", " ", "\"", "S", "p", "l", "a",
      "s", "h", " ", "p", "a", "g", "e", "s", "\"", "\"", "|", "^", "|", "\"",
      "P", "a", "i", "d", "\"">>

\* "CAP-GOWN PKG ULTRA NAVY 60""|^|
inches_case ==
    <<"\"", "C", "A", "P", "-", "G", "O", "W", "N", " ", "P", "K", "G", " ", "U",
      "L", "T", "R", "A", " ", "N", "A", "V", "Y", " ", "6", "0", "\"", "\"",
      "|", "^", "|">>

\* "5"" |^|: an inch mark with a space before the delimiter
padded_inches_case == <<"\"", "5", "\"", "\"", " ">> \o PIPE_CARET_PIPE

TestCases == {splash_case, inches_case, padded_inches_case}

\* 5"a: a digit, a double quote, a letter
double_quote_case == <<"5", "\"", "a">>

\* one qualified field whose content is made of letters, spaces, tabs and
\* line breaks, alone or between a bare field and a padded delimiter
WhitespaceLines(delim, qual) ==
    LET fields == {qual \o Flatten(t) \o qual :
                      t \in SeqsUpTo({<<"a">>, <<" ">>, <<"\t">>, <<"\n">>, <<"\r">>},
                                     MaxTokens - 1)}
    IN  fields \cup {<<"x", " ", " ", "y">> \o delim \o f \o <<" ">> \o delim \o <<"z">> :
                        f \in fields}

CallLines(delim, qual) ==
    TokenLines(delim, qual) \cup RecordLines(delim, qual)
        \cup WhitespaceLines(delim, qual)
        \cup (IF delim = PIPE_CARET_PIPE /\ qual = DQUOTE THEN TestCases ELSE {})
        \cup {double_quote_case}

Returned(count, text, flag) == [count |-> count, text |-> text, flag |-> flag]

InitCalls ==
    /\ \E pair \in TokenPairs :
           /\ delimiter = pair[1]
           /\ qualifier = pair[2]
           /\ line \in CallLines(pair[1], pair[2])
    /\ called = "none"
    /\ returned = Returned(0, << >>, FALSE)
    /\ final = FALSE
    /\ lines = << >>
    /\ error_path = FALSE
    /\ error_transactions_path = FALSE
    /\ pc = "call"
    /\ header_line = << >>
    /\ header_count = 0
    /\ corrected_lines = << >>
    /\ uncorrectable_lines = << >>
    /\ error_logs = << >>
    /\ error_transactions = << >>
    /\ i = 0
    /\ combined_line = << >>
    /\ next_index = 0
    /\ original_lines = << >>
    /\ error_transaction_lines = << >>
    /\ combine_attempts = 0
    /\ final_lines = << >>
    /\ output_file = NotWritten
    /\ error_file = NotWritten
    /\ error_transactions_file = NotWritten
    /\ history = [consumed |-> << >>, emitted |-> << >>,
                  configured |-> <<delimiter, qualifier>>]
    /\ scan = NoScan

Call(name, result) ==
    /\ pc = "call" /\ called = "none"
    /\ called' = name
    /\ returned' = result
    /\ UNCHANGED <<run_vars, line, scan>>

CallFixEmbeddedQuotes ==
    Call("fix_embedded_quotes",
         Returned(0, fix_embedded_quotes(line, delimiter, qualifier), FALSE))

CallCountColumns ==
    Call("count_columns",
         Returned(count_columns(line, delimiter, qualifier), << >>, FALSE))

CallCleanQualifiedContent ==
    Call("clean_qualified_content",
         Returned(0, clean_qualified_content(line, delimiter, qualifier), FALSE))

CallFixEmbeddedQuotesFinal ==
    Call("fix_embedded_quotes_final",
         Returned(0, fix_embedded_quotes_final(line, delimiter, qualifier), FALSE))

CallCountColumnsFinal ==
    Call("count_columns_final",
         Returned(count_columns_final(line, delimiter, qualifier), << >>, FALSE))

CallCleanQualifiedContentFinal ==
    Call("clean_qualified_content_final",
         Returned(0, clean_qualified_content_final(line, delimiter, qualifier), FALSE))

NextCalls ==
    \/ CallFixEmbeddedQuotes
    \/ CallCountColumns
    \/ CallCleanQualifiedContent
    \/ CallFixEmbeddedQuotesFinal
    \/ CallCountColumnsFinal
    \/ CallCleanQualifiedContentFinal

SpecCalls == InitCalls /\ [][NextCalls]_vars

\* ------------------------------------------------------------------------
\* Runs of fix_data_shifting with delimiter or qualifier left to detection
\* ------------------------------------------------------------------------

\* headers holding several candidates, one candidate, none; the qualifiers in
\* the other order than the list; a tab that strip() removes
DetectHeaders ==
    {<<"a">> \o PIPE_CARET_PIPE \o <<"b", ",", "c">>,
     <<"a", ",", "b", "|", "c">>,
     <<"a", "|", "b", ";", "c">>,
     <<"a", "\t", "b", ";", "c">>,
     <<"a", ";", "b">>,
     <<"a", "b">>,
     <<"'", "a", "'", ",", "\"", "b", "\"">>,
     <<"'", "a", "'", ";", "'", "b", "'">>,
     <<"a", "\t">>}

DetectFiles ==
    {AsRead(<<h, l>>) : h \in DetectHeaders, l \in {GOOD, SHORT}}
        \cup InputFiles(Pool, {0})

\* delimiter=None, qualifier=None, or a token given by the caller
ConfiguredChoices == {None, PIPE_CARET_PIPE, <<",">>} \X {None, DQUOTE, SQUOTE}

InitDetect == InitRun(FALSE, DetectFiles, BothDestinations, ConfiguredChoices)

SpecDetect == InitDetect /\ [][Next]_vars

\* ------------------------------------------------------------------------
\* The scanning loops, one iteration at a time: fix_embedded_quotes,
\* count_columns and clean_qualified_content of data_shifting.py,
\* is_line_complete of data_shifting_final.py
\* ------------------------------------------------------------------------

\* lines of fewer than MaxTokens tokens, and the examples of the tests
ScanLines(delim, qual) ==
    {Flatten(t) : t \in SeqsUpTo({delim, qual, <<"a">>, <<"5">>, <<" ">>}, MaxTokens - 1)}
        \cup (IF delim = PIPE_CARET_PIPE /\ qual = DQUOTE THEN TestCases ELSE {})

Scanners ==
    {"fix_embedded_quotes", "count_columns", "clean_qualified_content",
     "is_line_complete"}

InitScan ==
    /\ \E pair \in TokenPairs :
           /\ delimiter = pair[1]
           /\ qualifier = pair[2]
           /\ line \in ScanLines(pair[1], pair[2])
    /\ called = "none"
    /\ returned = Returned(0, << >>, FALSE)
    /\ scan = NoScan
    /\ final = FALSE
    /\ lines = << >>
    /\ error_path = FALSE
    /\ error_transactions_path = FALSE
    /\ pc = "scan"
    /\ header_line = << >>
    /\ header_count = 0
    /\ corrected_lines = << >>
    /\ uncorrectable_lines = << >>
    /\ error_logs = << >>
    /\ error_transactions = << >>
    /\ i = 0
    /\ combined_line = << >>
    /\ next_index = 0
    /\ original_lines = << >>
    /\ error_transaction_lines = << >>
    /\ combine_attempts = 0
    /\ final_lines = << >>
    /\ output_file = NotWritten
    /\ error_file = NotWritten
    /\ error_transactions_file = NotWritten
    /\ history = [consumed |-> << >>, emitted |-> << >>,
                  configured |-> <<delimiter, qualifier>>]

\* a variant of the step over a regular character that stays where it is
stay(current_pos) == current_pos

\* "current_pos += 1"
advance(current_pos) == current_pos + 1

\* the function is entered: the assignments before its loop.  count_columns
\* and clean_qualified_content first call fix_embedded_quotes.
ScanBegin ==
    /\ pc = "scan" /\ called = "none"
    /\ \E name \in Scanners :
           /\ called' = name
           /\ scan' = [NoScan EXCEPT
                  !.at = "loop",
                  !.fixed_line =
                      IF name \in {"count_columns", "clean_qualified_content"}
                      THEN fix_embedded_quotes(line, delimiter, qualifier)
                      ELSE line,
                  !.column_count = 1]
    /\ UNCHANGED <<run_vars, line, returned>>

\* one iteration of "while True" in fix_embedded_quotes; fixed_line is its
\* result and current_pos its pos
FixIteration ==
    /\ pc = "scan" /\ called = "fix_embedded_quotes" /\ scan.at = "loop"
    /\ LET result == scan.fixed_line
           double_quote_pattern == qualifier \o qualifier \o delimiter
           pos == find(result, double_quote_pattern, scan.current_pos)
           r == rfind(result, delimiter, pos)
           prev_delim_pos == IF r = -1 THEN 0 ELSE r + Len(delimiter)
           field_start == prev_delim_pos + Len(qualifier)
       IN  IF pos = -1
           THEN /\ scan' = [scan EXCEPT !.at = "done"]
                /\ returned' = Returned(0, result, FALSE)
           ELSE /\ returned' = returned
                /\ IF StartsAt(result, prev_delim_pos, qualifier)
                   THEN IF pos > field_start /\ after_digit(result, pos)
                        THEN scan' = [scan EXCEPT
                                 !.fixed_line =
                                     Slice(result, 0, pos) \o INCHES
                                         \o Slice(result, pos + Len(qualifier),
                                                  Len(result)),
                                 !.current_pos = pos + Len(INCHES)]
                        ELSE scan' = [scan EXCEPT
                                 !.current_pos = pos + Len(qualifier)]
                   ELSE scan' = [scan EXCEPT
                            !.current_pos = pos + Len(double_quote_pattern)]
    /\ UNCHANGED <<run_vars, line, called>>

\* a qualifier met inside a quoted field: "next_pos = current_pos +
\* len(qualifier)", before the loop that skips whitespace
LookAhead ==
    /\ pc = "scan" /\ scan.at = "loop"
    /\ called \in {"count_columns", "clean_qualified_content", "is_line_complete"}
    /\ scan.current_pos < Len(scan.fixed_line)
    /\ StartsAt(scan.fixed_line, scan.current_pos, qualifier)
    /\ scan.in_quote
    /\ scan' = [scan EXCEPT !.at = "skip",
                            !.next_pos = scan.current_pos + Len(qualifier)]
    /\ UNCHANGED <<run_vars, line, called, returned>>

\* "while next_pos < len(fixed_line) and fixed_line[next_pos].isspace()":
\* one iteration, or the exit
SkipWhitespace ==
    /\ pc = "scan" /\ scan.at = "skip"
    /\ IF scan.next_pos < Len(scan.fixed_line)
              /\ isspace(At(scan.fixed_line, scan.next_pos))
       THEN scan' = [scan EXCEPT !.next_pos = scan.next_pos + 1]
       ELSE scan' = [scan EXCEPT !.at = "close"]
    /\ UNCHANGED <<run_vars, line, called, returned>>

\* the rest of one iteration of the loop of count_columns
CountIteration ==
    /\ pc = "scan" /\ called = "count_columns"
    /\ LET fixed_line == scan.fixed_line
           current_pos == scan.current_pos
           next_pos == scan.next_pos
       IN  \/ /\ scan.at = "loop" /\ current_pos >= Len(fixed_line)
              /\ scan' = [scan EXCEPT !.at = "done"]
              /\ returned' = Returned(scan.column_count, << >>, FALSE)
           \/ /\ scan.at = "loop" /\ current_pos < Len(fixed_line)
              /\ returned' = returned
              /\ IF StartsAt(fixed_line, current_pos, qualifier)
                 THEN /\ ~scan.in_quote
                      /\ scan' = [scan EXCEPT
                             !.in_quote = TRUE,
                             !.current_pos = current_pos + Len(qualifier)]
                 ELSE IF ~scan.in_quote /\ StartsAt(fixed_line, current_pos, delimiter)
                 THEN scan' = [scan EXCEPT
                          !.column_count = scan.column_count + 1,
                          !.current_pos = current_pos + Len(delimiter)]
                 ELSE scan' = [scan EXCEPT !.current_pos = advance(current_pos)]
           \/ /\ scan.at = "close"
              /\ returned' = returned
              /\ IF next_pos >= Len(fixed_line)
                 THEN scan' = [scan EXCEPT !.at = "loop", !.in_quote = FALSE,
                                           !.current_pos = next_pos]
                 ELSE IF StartsAt(fixed_line, next_pos, delimiter)
                 THEN scan' = [scan EXCEPT
                          !.at = "loop", !.in_quote = FALSE,
                          !.column_count = scan.column_count + 1,
                          !.current_pos = next_pos + Len(delimiter)]
                 ELSE scan' = [scan EXCEPT
                          !.at = "loop",
                          !.current_pos = current_pos + Len(qualifier)]
    /\ UNCHANGED <<run_vars, line, called>>

\* the rest of one iteration of the loop of clean_qualified_content;
\* cleaned_parts is kept joined
CleanIteration ==
    /\ pc = "scan" /\ called = "clean_qualified_content"
    /\ LET fixed_line == scan.fixed_line
           current_pos == scan.current_pos
           next_pos == scan.next_pos
           c == At(fixed_line, current_pos)
           processed_content == collapse_spaces(replace_tabs(scan.field_content))
           closed == closed_field(scan.current_field, processed_content, qualifier)
       IN  \/ /\ scan.at = "loop" /\ current_pos >= Len(fixed_line)
              /\ scan' = [scan EXCEPT !.at = "done"]
              /\ returned' = Returned(0, scan.cleaned_parts \o scan.current_field,
                                      FALSE)
           \/ /\ scan.at = "loop" /\ current_pos < Len(fixed_line)
              /\ returned' = returned
              /\ IF StartsAt(fixed_line, current_pos, qualifier)
                 THEN /\ ~scan.in_quote
                      /\ scan' = [scan EXCEPT
                             !.in_quote = TRUE,
                             !.current_field = scan.current_field \o qualifier,
                             !.field_content = << >>,
                             !.current_pos = current_pos + Len(qualifier)]
                 ELSE IF ~scan.in_quote /\ StartsAt(fixed_line, current_pos, delimiter)
                 THEN scan' = [scan EXCEPT
                          !.cleaned_parts =
                              scan.cleaned_parts \o scan.current_field \o delimiter,
                          !.current_field = << >>,
                          !.current_pos = current_pos + Len(delimiter)]
                 ELSE IF scan.in_quote
                 THEN scan' = [scan EXCEPT
                          !.field_content =
                              Append(scan.field_content,
                                     IF c \in {"\n", "\r", "\t"} THEN " " ELSE c),
                          !.current_pos = advance(current_pos)]
                 ELSE scan' = [scan EXCEPT
                          !.current_field = Append(scan.current_field, c),
                          !.current_pos = advance(current_pos)]
           \/ /\ scan.at = "close"
              /\ returned' = returned
              /\ IF next_pos >= Len(fixed_line)
                 THEN scan' = [scan EXCEPT
                          !.at = "loop", !.in_quote = FALSE,
                          !.cleaned_parts = scan.cleaned_parts \o closed,
                          !.current_field = << >>,
                          !.current_pos = next_pos]
                 ELSE IF StartsAt(fixed_line, next_pos, delimiter)
                 THEN scan' = [scan EXCEPT
                          !.at = "loop", !.in_quote = FALSE,
                          !.cleaned_parts = scan.cleaned_parts \o closed \o delimiter,
                          !.current_field = << >>,
                          !.current_pos = next_pos + Len(delimiter)]
                 ELSE scan' = [scan EXCEPT
                          !.at = "loop",
                          !.field_content = scan.field_content \o qualifier,
                          !.current_pos = current_pos + Len(qualifier)]
    /\ UNCHANGED <<run_vars, line, called>>

\* the rest of one iteration of the loop of is_line_complete
CompleteIteration ==
    /\ pc = "scan" /\ called = "is_line_complete"
    /\ LET current_pos == scan.current_pos
           next_pos == scan.next_pos
       IN  \/ /\ scan.at = "loop" /\ current_pos >= Len(scan.fixed_line)
              /\ scan' = [scan EXCEPT !.at = "done"]
              /\ returned' = Returned(0, << >>, ~scan.in_quote)
           \/ /\ scan.at = "loop" /\ current_pos < Len(scan.fixed_line)
              /\ returned' = returned
              /\ IF StartsAt(scan.fixed_line, current_pos, qualifier)
                 THEN /\ ~scan.in_quote
                      /\ scan' = [scan EXCEPT
                             !.in_quote = TRUE,
                             !.current_pos = current_pos + Len(qualifier)]
                 ELSE scan' = [scan EXCEPT !.current_pos = advance(current_pos)]
           \/ /\ scan.at = "close"
              /\ returned' = returned
              /\ scan' = [scan EXCEPT
                     !.at = "loop",
                     !.in_quote =
                         ~(next_pos >= Len(scan.fixed_line)
                              \/ StartsAt(scan.fixed_line, next_pos, delimiter)),
                     !.current_pos = current_pos + Len(qualifier)]
    /\ UNCHANGED <<run_vars, line, called>>

NextScan ==
    \/ ScanBegin
    \/ FixIteration
    \/ LookAhead
    \/ SkipWhitespace
    \/ CountIteration
    \/ CleanIteration
    \/ CompleteIteration

SpecScan == InitScan /\ [][NextScan]_vars

\* the interpreter goes on with a call that has not returned
FairSpecScan == SpecScan /\ WF_vars(NextScan)

\* ------------------------------------------------------------------------
\* count_columns on a merge candidate: combined_line + ' ' + next_line
\* ------------------------------------------------------------------------

MaxJoin == 2

\* the lines appended: at most MaxJoin tokens
NextLines(delim, qual) ==
    {Flatten(t) : t \in SeqsUpTo({delim, qual, <<"a">>, <<"5">>, <<" ">>}, MaxJoin)}

\* no run of fix_data_shifting is under way
NoRun ==
    /\ final = FALSE
    /\ lines = << >>
    /\ error_path = FALSE
    /\ error_transactions_path = FALSE
    /\ header_line = << >>
    /\ header_count = 0
    /\ corrected_lines = << >>
    /\ uncorrectable_lines = << >>
    /\ error_logs = << >>
    /\ error_transactions = << >>
    /\ i = 0
    /\ combined_line = << >>
    /\ next_index = 0
    /\ original_lines = << >>
    /\ error_transaction_lines = << >>
    /\ combine_attempts = 0
    /\ final_lines = << >>
    /\ output_file = NotWritten
    /\ error_file = NotWritten
    /\ error_transactions_file = NotWritten
    /\ history = [consumed |-> << >>, emitted |-> << >>,
                  configured |-> <<delimiter, qualifier>>]

\* the candidate so far: a line of at most MaxTokens - 2 tokens
InitJoin ==
    /\ \E pair \in TokenPairs :
           /\ delimiter = pair[1]
           /\ qualifier = pair[2]
           /\ line \in {Flatten(t) :
                           t \in SeqsUpTo({pair[1], pair[2], <<"a">>, <<"5">>, <<" ">>},
                                          MaxTokens - 2)}
    /\ called = "none"
    /\ returned = Returned(0, << >>, FALSE)
    /\ scan = NoScan
    /\ pc = "join"
    /\ NoRun

\* "combined_line += ' ' + next_line" and the count_columns that follows it
CallCountColumnsJoined ==
    /\ pc = "join" /\ called = "none"
    /\ \E next_line \in NextLines(delimiter, qualifier) :
           LET candidate == joined(line, next_line)
           IN  returned' = Returned(count_columns(candidate, delimiter, qualifier),
                                    candidate, FALSE)
    /\ called' = "count_columns_joined"
    /\ UNCHANGED <<run_vars, line, scan>>

SpecJoin == InitJoin /\ [][CallCountColumnsJoined]_vars

\* ------------------------------------------------------------------------
\* Properties
\* ------------------------------------------------------------------------

\* a occurs in b
IsSubstring(a, b) == \E p \in 0 .. (Len(b) - Len(a)) : StartsAt(b, p, a)

\* the run is over and the input had a header
Finished == pc = "done" /\ lines # << >>

\* the physical lines after the header
DataLines == 1 .. (Len(lines) - 1)

\* the physical lines the pass disposed of as `how`
Disposed(how) == {k \in DataLines : how \in {history.consumed[k + 1][n] :
                                        n \in 1 .. Len(history.consumed[k + 1])}}

\* C1: no record is silently dropped: when the run is over, the text of every
\* non-blank physical line after the header is in the corrected output, as a
\* record of its own or inside a merged record.  (The text is looked for in
\* corrected_lines, the output before the cleaner's normalisation.)
C1_NoRecordSilentlyDropped ==
    Finished =>
        \A k \in DataLines :
            strip(line_at(k)) # << >> =>
                \E r \in 1 .. Len(corrected_lines) :
                    IsSubstring(line_at(k), corrected_lines[r])

\* C2: in the final revision every physical line after the header is consumed
\* exactly once, as an emitted record, as a skipped blank line or as a line
\* absorbed by a merge attempt, so that the emitted records, the skipped
\* blanks and the absorbed lines add up to the lines after the header.
C2_EveryLineConsumedOnce ==
    (final /\ Finished) =>
        /\ \A k \in DataLines : Len(history.consumed[k + 1]) = 1
        /\ (Len(corrected_lines) - 1) + Cardinality(Disposed("blank"))
               + Cardinality(Disposed("appended")) = Len(lines) - 1

\* the record of final_lines at r came from a line accepted as complete, from
\* a successful merge, or is the header
NotUncorrectable(r) == history.emitted[r].kind \in {"header", "accepted", "merged"}

\* C3: header-count invariant of data_shifting.py: every record of the
\* corrected output that was not logged as uncorrectable (the header, the
\* accepted lines, the merged records) has count_columns equal to the header's
\* column count, measured as written, after clean_qualified_content.
C3_HeaderCountInvariant ==
    (~final /\ pc \in {"write", "done"} /\ lines # << >>) =>
        /\ Len(final_lines) = Len(history.emitted)
        /\ \A r \in 1 .. Len(final_lines) :
               NotUncorrectable(r) =>
                   count_columns(final_lines[r], delimiter, qualifier) = header_count
        /\ pc = "done" => output_file = write_lines(final_lines)

\* an output with an accepted line the cleaner changed, a merged record, and
\* an uncorrectable record of another column count
C3_Witness ==
    /\ ~final /\ Finished
    /\ \E r \in 1 .. Len(final_lines) :
           /\ history.emitted[r].kind = "accepted"
           /\ output_file.content[r] # corrected_lines[r]
    /\ \E r \in 1 .. Len(final_lines) : history.emitted[r].kind = "merged"
    /\ \E r \in 1 .. Len(final_lines) :
           /\ ~NotUncorrectable(r)
           /\ count_columns(output_file.content[r], delimiter, qualifier) # header_count

\* C4: uncorrectable preservation: the original text of every record flagged
\* uncorrectable (a single-line mismatch or the starting line of a failed
\* merge) is, character for character, a record of the corrected output and
\* an entry of the error-transactions extract, when a destination for the
\* extract was supplied.
C4_UncorrectablePreserved ==
    Finished =>
        \A n \in 1 .. Len(uncorrectable_lines) :
            LET text == line_at(uncorrectable_lines[n][1] - 1)
            IN  /\ \E r \in 1 .. Len(output_file.content) :
                       output_file.content[r] = text
                /\ error_transactions_path =>
                       \E t \in 1 .. Len(error_transactions_file.content) :
                           error_transactions_file.content[t] = text

\* the physical lines a .. b joined by single spaces
RECURSIVE JoinFrom(_, _)
JoinFrom(a, b) ==
    IF b <= a THEN line_at(a) ELSE JoinFrom(a, b - 1) \o <<" ">> \o line_at(b)

\* the text ends inside a quoted field
HasOpenQualifier(text) == in_quote_at_end(text, 0, FALSE, delimiter, qualifier)

\* the current line starts a merge when it mismatches, has an open qualifier
\* and is followed by a physical line
C5_Enters ==
    (/\ pc = "loop" /\ i < Len(lines)
     /\ columns(current_line) # header_count
     /\ HasOpenQualifier(current_line)
     /\ i + 1 < Len(lines))
        => /\ pc' = "merge"
           /\ combined_line' = current_line
           /\ next_index' = i + 1

\* a step of the merge appends the next physical line after one space,
\* re-counts, and stops exactly when the count is the header's
C5_Appends ==
    (pc = "merge" /\ pc' \in {"merge", "merged"})
        => /\ combined_line' = combined_line \o <<" ">> \o line_at(next_index)
           /\ combined_line' = JoinFrom(i, next_index)
           /\ pc' = "merged" <=> columns(combined_line') = header_count
           /\ pc' = "merge" => next_index' = next_index + 1
           /\ pc' = "merged" => next_index' = next_index

\* a merge that reached the header's count emits the candidate of the first
\* such append as one record and resumes after the last appended line
C5_Emits ==
    (pc \in {"merge", "merged"} /\ pc' = "loop"
     /\ columns(combined_line) = header_count)
        => /\ corrected_lines' =
                  Append(corrected_lines, JoinFrom(i, next_index))
           /\ next_index > i
           /\ \A k \in i .. (next_index - 1) :
                  columns(JoinFrom(i, k)) # header_count
           /\ i' = next_index + 1

\* the record "a"|^|"b / c"|^|"d" under the 3-column header, met as the
\* current line, comes out as line1 + ' ' + line2 with 3 columns
C5_TwoLineRecord ==
    Finished =>
        \A k \in DataLines :
            (/\ line_at(k) = OPEN
             /\ k + 1 \in DataLines /\ line_at(k + 1) = CLOSE
             /\ history.consumed[k + 1] \notin {<< >>, <<"appended">>})
                => \E r \in 1 .. Len(corrected_lines) :
                       /\ history.emitted[r] =
                              [kind |-> "merged", from |-> k, to |-> k + 1]
                       /\ corrected_lines[r] = OPEN \o <<" ">> \o CLOSE
                       /\ columns(corrected_lines[r]) = 3
                       /\ header_count = 3

\* C5: multi-line reassembly (both revisions): a mismatching line with an open
\* qualifier and a following physical line starts a merge; the merge appends
\* the following lines one at a time, each after exactly one space and with no
\* line break, re-counting after each, and stops at the first append after
\* which the count is the header's; that candidate is emitted as one record
\* and the pass resumes right after the last appended line.  A 2-line record
\* under a 3-column header comes out as line1 + ' ' + line2, 3 columns.
C5_MultiLineReassembly ==
    /\ [][C5_Enters /\ C5_Appends /\ C5_Emits]_vars
    /\ []C5_TwoLineRecord

\* a finished run that merged "a"|^|"b and c"|^|"d" and went on with the
\* physical line after them
C5_Witness ==
    /\ Finished
    /\ \E r \in 1 .. (Len(history.emitted) - 1) :
           /\ history.emitted[r].kind = "merged"
           /\ line_at(history.emitted[r].from) = OPEN
           /\ history.emitted[r].to = history.emitted[r].from + 1
           /\ corrected_lines[r] = OPEN \o <<" ">> \o CLOSE
           /\ history.emitted[r + 1].from = history.emitted[r].to + 1

\* the following physical lines the merge in progress has appended
AppendedSoFar == Len(error_transaction_lines) - 1

\* a merge never holds more than max_combine_attempts appended lines
C6_Bounded ==
    (final /\ pc \in {"merge", "merged"}) =>
        /\ combine_attempts <= max_combine_attempts
        /\ AppendedSoFar <= max_combine_attempts
        /\ pc = "merge" => AppendedSoFar = combine_attempts

\* out of attempts or out of input, the merge loop is left at once
C6_LoopEnds ==
    (/\ final /\ pc = "merge"
     /\ \/ combine_attempts >= max_combine_attempts
        \/ next_index >= Len(lines))
        => pc' = "loop"

\* a merge that did not reach the header's count emits its starting line
\* unmerged, flags it uncorrectable, and the pass moves forward
C6_FailureFlagged ==
    (/\ final /\ pc \in {"merge", "merged"} /\ pc' = "loop"
     /\ columns(combined_line) # header_count)
        => /\ corrected_lines' = Append(corrected_lines, current_line)
           /\ uncorrectable_lines' =
                  Append(uncorrectable_lines, <<i + 1, current_line>>)
           /\ i' > i

\* C6: bounded retry termination (data_shifting_final.py): one merge appends
\* at most 10 following physical lines; when the candidate never reaches the
\* header's count within those attempts, or the input ends first, the merge
\* loop is left, the starting line is emitted unmerged and flagged
\* uncorrectable, every merge in progress ends, and the pass finishes.
C6_BoundedRetryTermination ==
    /\ []C6_Bounded
    /\ [][C6_LoopEnds /\ C6_FailureFlagged]_vars
    /\ [][position' # position]_vars
    /\ (pc = "merge") ~> (pc = "loop")
    /\ <>(pc = "done")

\* a finished run in which a merge gave up after ten appended lines with
\* input left
C6_Witness ==
    /\ final /\ Finished
    /\ \E r \in 1 .. Len(history.emitted) :
           LET f == history.emitted[r].from
           IN  /\ history.emitted[r].kind = "unmerged"
               /\ f + max_combine_attempts + 1 \in DataLines
               /\ \A k \in (f + 1) .. (f + max_combine_attempts) :
                      history.consumed[k + 1] = <<"appended">>
               /\ history.consumed[f + max_combine_attempts + 2] # <<"appended">>
               /\ \E n \in 1 .. Len(uncorrectable_lines) :
                      uncorrectable_lines[n] = <<f + 1, line_at(f)>>

\* The number of fields of a well-formed record, 0 when the text from field
\* start p on is not one: each field is bare (neither token in it) or is
\* qualifier, content without the qualifier, qualifier; fields are separated
\* by the delimiter alone.
RECURSIVE WellFormedFields(_, _, _, _)
WellFormedFields(s, p, delim, qual) ==
    IF StartsAt(s, p, qual)
    THEN LET c == find(s, qual, p + Len(qual))
             after == c + Len(qual)
             rest == WellFormedFields(s, after + Len(delim), delim, qual)
         IN  IF c = -1 THEN 0
             ELSE IF after >= Len(s) THEN 1
             ELSE IF StartsAt(s, after, delim) /\ rest > 0 THEN rest + 1
             ELSE 0
    ELSE LET dp == find(s, delim, p)
             end == IF dp = -1 THEN Len(s) ELSE dp
             rest == WellFormedFields(s, dp + Len(delim), delim, qual)
         IN  IF \E k \in p .. (end - 1) : StartsAt(s, k, qual) THEN 0
             ELSE IF dp = -1 THEN 1
             ELSE IF rest > 0 THEN rest + 1
             ELSE 0

\* C7: column-count correctness: for a well-formed record of N fields
\* count_columns returns N, for every delimiter and qualifier (|^| and the tab
\* among the delimiters); for the empty line it returns 1.
C7_ColumnCountCorrect ==
    called = "count_columns" =>
        /\ line = << >> => returned.count = 1
        /\ LET n == WellFormedFields(line, 0, delimiter, qualifier)
           IN  n > 0 => returned.count = n

\* a record the final revision has nothing to repair in: well formed, of the
\* header's count, free of tabs, line breaks and repeated spaces
Legitimate(text) ==
    /\ WellFormedFields(text, 0, delimiter, qualifier) = header_count
    /\ \A k \in 1 .. Len(text) : text[k] \notin {"\t", "\n", "\r"}
    /\ \A k \in 1 .. (Len(text) - 1) : ~(text[k] = " " /\ text[k + 1] = " ")

\* C8: legitimate data is not corrupted: data_shifting_final.py writes every
\* legitimate record it meets as a current line to the corrected output
\* exactly as it was read, also when a qualified field ends with digits.
C8_LegitimateDataUnchanged ==
    (final /\ Finished) =>
        \A k \in DataLines :
            (/\ Legitimate(line_at(k))
             /\ history.consumed[k + 1] \notin {<< >>, <<"appended">>})
                => \E r \in 1 .. Len(output_file.content) :
                       /\ history.emitted[r].from = k
                       /\ history.emitted[r].to = k
                       /\ output_file.content[r] = line_at(k)

\* The reading of a record whose qualified fields may hold the qualifier: a
\* field that starts with the qualifier ends at the first qualifier followed,
\* after optional whitespace, by the delimiter or the end of the line; the
\* qualifiers before it are embedded.  ok is FALSE when a qualified field
\* does not end or a bare field holds the qualifier.
RECURSIVE EmbeddedReading(_, _, _, _)
EmbeddedReading(s, p, delim, qual) ==
    LET failed == [ok |-> FALSE, n |-> 0, embedded |-> {}]
        more(np, emb) ==
            LET rest == EmbeddedReading(s, np + Len(delim), delim, qual)
            IN  [ok |-> rest.ok, n |-> rest.n + 1,
                 embedded |-> emb \cup rest.embedded]
    IN  IF StartsAt(s, p, qual)
        THEN LET closers ==
                     {c \in (p + Len(qual)) .. (Len(s) - 1) :
                         /\ StartsAt(s, c, qual)
                         /\ LET np == SkipSpace(s, c + Len(qual))
                            IN  np >= Len(s) \/ StartsAt(s, np, delim)}
                 c == Min(closers)
                 np == SkipSpace(s, c + Len(qual))
                 emb == {e \in (p + Len(qual)) .. (c - 1) : StartsAt(s, e, qual)}
             IN  IF closers = {} THEN failed
                 ELSE IF np >= Len(s) THEN [ok |-> TRUE, n |-> 1, embedded |-> emb]
                 ELSE more(np, emb)
        ELSE LET dp == find(s, delim, p)
                 end == IF dp = -1 THEN Len(s) ELSE dp
             IN  IF \E k \in p .. (end - 1) : StartsAt(s, k, qual) THEN failed
                 ELSE IF dp = -1 THEN [ok |-> TRUE, n |-> 1, embedded |-> {}]
                 ELSE more(dp, {})

\* the number of places where tok occurs in s
CountOcc(s, tok) == Cardinality({p \in 0 .. (Len(s) - 1) : StartsAt(s, p, tok)})

PrecededByDigit(s, p) == p > 0 /\ isdigit(At(s, p - 1))

\* "Splash pages", quotation marks included
SPLASH_PAGES ==
    <<"\"", "S", "p", "l", "a", "s", "h", " ", "p", "a", "g", "e", "s", "\"">>

\* C9: embedded-quote preservation (data_shifting.py): the Splash pages record
\* counts 3 columns and its cleaned text still holds "Splash pages" with both
\* quotation marks; in general, in a record of closed fields, an embedded
\* qualifier that is not preceded by a digit neither ends its field for
\* count_columns nor is removed by clean_qualified_content.
C9_EmbeddedQuotePreserved ==
    LET reading == EmbeddedReading(line, 0, delimiter, qualifier)
        digit_marks == {e \in reading.embedded : PrecededByDigit(line, e)}
    IN  /\ called = "count_columns" =>
               /\ line = splash_case => returned.count = 3
               /\ reading.ok => returned.count = reading.n
        /\ called = "clean_qualified_content" =>
               /\ line = splash_case => IsSubstring(SPLASH_PAGES, returned.text)
               /\ reading.ok =>
                      /\ CountOcc(returned.text, qualifier)
                             >= CountOcc(line, qualifier) - Cardinality(digit_marks)
                      /\ digit_marks = {} =>
                             EmbeddedReading(returned.text, 0, delimiter, qualifier).n
                                 = reading.n

\* the Splash pages record was cleaned and kept its quotation
C9_Witness ==
    /\ called = "clean_qualified_content"
    /\ line = splash_case
    /\ EmbeddedReading(line, 0, delimiter, qualifier).embedded # {}
    /\ IsSubstring(SPLASH_PAGES, returned.text)

\* where digit + qualifier + qualifier + delimiter occurs (the position of the
\* first qualifier) in a field that begins with a qualifier right after the
\* nearest preceding delimiter or at the start of the line
InchMarks(s, delim, qual) ==
    {p \in 1 .. (Len(s) - 1) :
        /\ StartsAt(s, p, qual \o qual \o delim)
        /\ isdigit(At(s, p - 1))
        /\ LET r == rfind(s, delim, p)
               field == IF r = -1 THEN 0 ELSE r + Len(delim)
           IN  StartsAt(s, field, qual)}

\* s with the qualifier at each of these positions replaced by " inches"
RECURSIVE WithInches(_, _, _)
WithInches(s, marks, qual) ==
    IF marks = {} THEN s
    ELSE LET p == Max(marks)
         IN  WithInches(Slice(s, 0, p) \o <<" ", "i", "n", "c", "h", "e", "s">>
                            \o Slice(s, p + Len(qual), Len(s)),
                        marks \ {p}, qual)

\* "CAP-GOWN PKG ULTRA NAVY 60 inches"|^|
inches_expected ==
    Slice(inches_case, 0, 27) \o <<" ", "i", "n", "c", "h", "e", "s", "\"">>
        \o PIPE_CARET_PIPE

C11_CleaningIdempotent ==
    /\ called = "clean_qualified_content" =>
           clean_qualified_content(returned.text, delimiter, qualifier)
               = returned.text
    /\ called = "clean_qualified_content_final" =>
           clean_qualified_content_final(returned.text, delimiter, qualifier)
               = returned.text

\* the same for data_shifting.py alone
C11_CleaningIdempotentFirstRevision ==
    called = "clean_qualified_content" =>
        clean_qualified_content(returned.text, delimiter, qualifier) = returned.text

\* C12: idempotence of quote normalisation (final revision): applying
\* fix_embedded_quotes to its own output returns that output unchanged.
C12_NormalisationIdempotent ==
    called = "fix_embedded_quotes_final" =>
        fix_embedded_quotes_final(returned.text, delimiter, qualifier) = returned.text

\* the characters of s that are not whitespace, in order
NotSpace(c) == ~isspace(c)

NonWhitespace(s) == SelectSeq(s, NotSpace)

\* a can be obtained from b by deleting characters
RECURSIVE IsSubsequence(_, _)
IsSubsequence(a, b) ==
    IF a = << >> THEN TRUE
    ELSE IF b = << >> THEN FALSE
    ELSE IF Head(a) = Head(b) THEN IsSubsequence(Tail(a), Tail(b))
    ELSE IsSubsequence(a, Tail(b))

\* The contents of the qualified fields of s from field start p on, one after
\* the other: a field that begins with the qualifier holds what lies between
\* it and the first qualifier followed, after optional whitespace, by the
\* delimiter or the end of the line, or the rest of the line when there is no
\* such qualifier (an unclosed field).
RECURSIVE QualifiedContents(_, _, _, _)
QualifiedContents(s, p, delim, qual) ==
    IF p >= Len(s) THEN << >>
    ELSE IF StartsAt(s, p, qual)
    THEN LET closers ==
                 {c \in (p + Len(qual)) .. (Len(s) - 1) :
                     /\ StartsAt(s, c, qual)
                     /\ LET np == SkipSpace(s, c + Len(qual))
                        IN  np >= Len(s) \/ StartsAt(s, np, delim)}
             c == Min(closers)
             np == SkipSpace(s, c + Len(qual))
         IN  IF closers = {} THEN Slice(s, p + Len(qual), Len(s))
             ELSE Slice(s, p + Len(qual), c)
                      \o (IF np >= Len(s) THEN << >>
                          ELSE QualifiedContents(s, np + Len(delim), delim, qual))
    ELSE LET dp == find(s, delim, p)
         IN  IF dp = -1 THEN << >>
             ELSE QualifiedContents(s, dp + Len(delim), delim, qual)

\* C13: data preservation by the cleaner (data_shifting.py): on a line the
\* inch rewrite leaves alone, every non-whitespace character of the content of
\* every qualified field, closed or not, appears in the cleaned line, in the
\* same order.
C13_CleanerPreservesContent ==
    (called = "clean_qualified_content"
        /\ fix_embedded_quotes(line, delimiter, qualifier) = line) =>
        IsSubsequence(NonWhitespace(QualifiedContents(line, 0, delimiter, qualifier)),
                      returned.text)

\* the physical lines involved in an anomaly: the starting line of a merge,
\* fixed or failed, the lines a merge absorbed, the single-line mismatches
Anomalous ==
    Disposed("merged") \cup Disposed("unmerged") \cup Disposed("appended")
        \cup Disposed("single")

\* the texts of these physical lines, in the order of the file
RECURSIVE LinesOf(_)
LinesOf(ks) ==
    IF ks = {} THEN << >>
    ELSE LET k == Min(ks) IN <<line_at(k)>> \o LinesOf(ks \ {k})

\* C14: error-transactions content (data_shifting.py): at the end of a run
\* with an error-transactions destination, the error-transactions list is the
\* header followed by every original physical line involved in an anomaly,
\* whether a merge fixed it or not, verbatim and in the order encountered.
C14_ErrorTransactionsContent ==
    (~final /\ Finished /\ error_transactions_path) =>
        error_transactions = <<header_line>> \o LinesOf(Anomalous)

\* C15: closing qualifier is never rewritten (final revision): on a record of
\* well-formed fields, fields whose content ends in a digit included,
\* fix_embedded_quotes leaves every closed qualified field opened and closed
\* by qualifiers: the result is a record of as many well-formed fields.
C15_ClosingQualifierKept ==
    (called = "fix_embedded_quotes_final"
        /\ WellFormedFields(line, 0, delimiter, qualifier) > 0) =>
        WellFormedFields(returned.text, 0, delimiter, qualifier)
            = WellFormedFields(line, 0, delimiter, qualifier)

\* C16: trailing double qualifier (final revision, rule 3 of
\* fix_embedded_quotes): when the text rules 1 and 2 produce ends with
\* qualifier + qualifier and there is non-blank content between the last
\* qualifier before that pair and the pair, exactly one trailing qualifier is
\* stripped; otherwise the text is returned unchanged.
C16_TrailingPairStripped ==
    called = "fix_embedded_quotes_final" =>
        LET result == fix_embedded_quotes_loop(inch_sub(line, 0), 0, delimiter,
                                               qualifier)
            pair == Len(result) - 2 * Len(qualifier)
            prior == rfind(result, qualifier, pair)
        IN  IF /\ endswith(result, qualifier \o qualifier)
               /\ prior # -1
               /\ strip(Slice(result, prior + Len(qualifier), pair)) # << >>
            THEN returned.text = Slice(result, 0, Len(result) - Len(qualifier))
            ELSE returned.text = result

\* C17: the qualifier is configurable (final revision, rule 1 of
\* fix_embedded_quotes): whatever the configured qualifier is, a qualifier
\* between a digit and a letter or digit is rewritten as an inch mark, and a
\* line that holds no configured qualifier is returned as it is, so that a
\* character that is not the qualifier is never rewritten.
C17_QualifierConfigurable ==
    called = "fix_embedded_quotes_final" =>
        /\ (\E p \in 1 .. (Len(line) - Len(qualifier) - 1) :
                /\ isdigit(At(line, p - 1))
                /\ StartsAt(line, p, qualifier)
                /\ isalnum(At(line, p + Len(qualifier))))
               => IsSubstring(INCHES, returned.text)
        /\ CountOcc(line, qualifier) = 0 => returned.text = line

\* the current line mismatches the header and is not continuable: no line
\* follows it, or the revision's continuation test is negative
C18_NotContinuable ==
    /\ pc = "loop" /\ i < Len(lines)
    /\ strip(current_line) # << >>
    /\ columns(current_line) # header_count
    /\ \/ i + 1 >= Len(lines)
       \/ IF final
          THEN /\ is_line_complete(current_line, delimiter, qualifier)
               /\ ~should_combine_lines(current_line, line_at(i + 1), delimiter,
                                        qualifier)
          ELSE ~open_qualifiers(current_line)

\* the step taken on such a line: one record, one group of the log, one entry
\* of the error transactions, and the pass is at the very next line
C18_Step ==
    C18_NotContinuable =>
        /\ corrected_lines' = Append(corrected_lines, current_line)
        /\ error_logs' = error_logs
               \o <<LogEntry("mismatch", i + 1, columns(current_line), << >>),
                    LogEntry("line", i + 1, 0, current_line), SEPARATOR>>
        /\ error_transactions' = Append(error_transactions, current_line)
        /\ uncorrectable_lines' = Append(uncorrectable_lines, <<i + 1, current_line>>)
        /\ i' = i + 1
        /\ pc' = "loop"

\* the physical line after a single-line mismatch is looked at on its own
C18_NextLineProcessed ==
    Finished =>
        \A k \in Disposed("single") :
            k + 1 \in DataLines =>
                /\ history.consumed[k + 2] # << >>
                /\ history.consumed[k + 2][1] # "appended"

\* C18: single-line error handling (both revisions): a line whose column
\* count mismatches the header and that is not continuable yields exactly one
\* record of the output, exactly one single-line group of the error log and
\* exactly one entry of the error transactions, and the pass goes on with the
\* very next physical line, so that later lines are still emitted.
C18_SingleLineErrorHandling == [][C18_Step]_vars /\ []C18_NextLineProcessed

\* a single-line mismatch followed by a line that was accepted
C18_Witness ==
    /\ Finished
    /\ \E k \in Disposed("single") :
           /\ k + 1 \in Disposed("accepted")
           /\ \E r \in 1 .. (Len(output_file.content) - 1) :
                  /\ history.emitted[r].kind = "single" /\ history.emitted[r].from = k
                  /\ history.emitted[r + 1].kind = "accepted"

\* C19: empty input (data_shifting.py): a run on an input file with no lines
\* ends at once; it writes no corrected output and no error-transactions
\* file, and it writes an error log, holding the empty-input diagnostic, if
\* and only if an error-log destination was supplied.
C19_EmptyInputAborts ==
    (~final /\ lines = << >>) =>
        /\ pc \in {"start", "done"}
        /\ ~output_file.written
        /\ ~error_transactions_file.written
        /\ pc = "done" =>
               /\ error_file.written <=> error_path
               /\ error_path =>
                      \E n \in 1 .. Len(error_file.content) :
                          error_file.content[n].kind = "empty"
               /\ corrected_lines = << >> /\ final_lines = << >>

\* the run on the empty file is over and the error log was written
C19_Witness ==
    /\ ~final /\ lines = << >> /\ pc = "done"
    /\ error_path /\ error_file.written
    /\ error_file.content[Len(error_file.content)].kind = "empty"

\* an anomaly occurred: a non-blank data line whose column count differs from
\* the header's
C20_Anomaly ==
    \E k \in DataLines :
        strip(line_at(k)) # << >> /\ columns(line_at(k)) # header_count

C21_Chosen(candidates, fallback) ==
    IF \E k \in 1 .. Len(candidates) : IsSubstring(candidates[k], header_line)
    THEN candidates[CHOOSE k \in 1 .. Len(candidates) :
                        /\ IsSubstring(candidates[k], header_line)
                        /\ \A j \in 1 .. (k - 1) :
                               ~IsSubstring(candidates[j], header_line)]
    ELSE fallback

C22_CleaningPreservesCount ==
    called = "clean_qualified_content" =>
        count_columns(returned.text, delimiter, qualifier)
            = count_columns(line, delimiter, qualifier)

\* a record of several columns that the cleaner changed
C22_Witness ==
    /\ called = "clean_qualified_content"
    /\ returned.text # line
    /\ count_columns(line, delimiter, qualifier) = MaxFields
    /\ WellFormedFields(line, 0, delimiter, qualifier) = MaxFields

\* the contents of the closed qualified fields of s from field start p on
RECURSIVE ClosedContents(_, _, _, _)
ClosedContents(s, p, delim, qual) ==
    IF p >= Len(s) THEN {}
    ELSE IF StartsAt(s, p, qual)
    THEN LET closers ==
                 {c \in (p + Len(qual)) .. (Len(s) - 1) :
                     /\ StartsAt(s, c, qual)
                     /\ LET np == SkipSpace(s, c + Len(qual))
                        IN  np >= Len(s) \/ StartsAt(s, np, delim)}
             c == Min(closers)
             np == SkipSpace(s, c + Len(qual))
         IN  IF closers = {} THEN {}
             ELSE {Slice(s, p + Len(qual), c)}
                      \cup (IF np >= Len(s) THEN {}
                            ELSE ClosedContents(s, np + Len(delim), delim, qual))
    ELSE LET dp == find(s, delim, p)
         IN  IF dp = -1 THEN {}
             ELSE ClosedContents(s, dp + Len(delim), delim, qual)

\* s with every tab and line break turned into a space and every run of
\* spaces reduced to one space, built character by character
RECURSIVE WhitespaceNormalised(_, _)
WhitespaceNormalised(s, out) ==
    IF s = << >> THEN out
    ELSE LET c == IF Head(s) \in {"\t", "\n", "\r"} THEN " " ELSE Head(s)
         IN  IF c = " " /\ out # << >> /\ out[Len(out)] = " "
             THEN WhitespaceNormalised(Tail(s), out)
             ELSE WhitespaceNormalised(Tail(s), Append(out, c))

\* the line is one closed qualified field without an embedded qualifier
C23_OneField ==
    /\ Len(line) >= 2 * Len(qualifier)
    /\ StartsAt(line, 0, qualifier)
    /\ find(line, qualifier, Len(qualifier)) = Len(line) - Len(qualifier)
    /\ find(line, delimiter, 0) = -1

RECURSIVE OutsideText(_, _, _, _)
OutsideText(s, p, delim, qual) ==
    IF p >= Len(s) THEN << >>
    ELSE IF StartsAt(s, p, qual)
    THEN LET closers ==
                 {c \in (p + Len(qual)) .. (Len(s) - 1) :
                     /\ StartsAt(s, c, qual)
                     /\ LET np == SkipSpace(s, c + Len(qual))
                        IN  np >= Len(s) \/ StartsAt(s, np, delim)}
             c == Min(closers)
             np == SkipSpace(s, c + Len(qual))
         IN  IF closers = {} THEN << >>
             ELSE Slice(s, c + Len(qual), np)
                      \o (IF np >= Len(s) THEN << >>
                          ELSE delim \o OutsideText(s, np + Len(delim), delim, qual))
    ELSE LET dp == find(s, delim, p)
         IN  IF dp = -1 THEN Slice(s, p, Len(s))
             ELSE Slice(s, p, dp) \o delim
                      \o OutsideText(s, dp + Len(delim), delim, qual)

\* C24: outside a qualified field the cleaner is the identity
\* (data_shifting.py): for a normalised record that reads as closed fields,
\* the characters and delimiters outside its qualified fields, in bare fields
\* and between a closing qualifier and the following delimiter or end of
\* line, are in the cleaned record unchanged and in place.
C24_IdentityOutsideFields ==
    (called = "clean_qualified_content"
        /\ fix_embedded_quotes(line, delimiter, qualifier) = line
        /\ EmbeddedReading(line, 0, delimiter, qualifier).ok) =>
        /\ EmbeddedReading(returned.text, 0, delimiter, qualifier).ok
        /\ OutsideText(returned.text, 0, delimiter, qualifier)
               = OutsideText(line, 0, delimiter, qualifier)

\* C25: blank lines are skipped entirely (data_shifting.py): a
\* whitespace-only physical line after the header is disposed of as a skipped
\* blank and as nothing else, wherever it stands: it is no record of the
\* output, it is not appended to a merged record, and it is no line of the
\* error log.
C25_BlankLinesSkipped ==
    (~final /\ Finished) =>
        \A k \in DataLines :
            strip(line_at(k)) = << >> =>
                /\ history.consumed[k + 1] = <<"blank">>
                /\ \A r \in 1 .. Len(history.emitted) :
                       history.emitted[r].kind # "header" =>
                           ~(history.emitted[r].from <= k /\ k <= history.emitted[r].to)
                /\ \A n \in 1 .. Len(error_logs) :
                       ~(error_logs[n].kind = "line" /\ error_logs[n].a = k + 1)

\* the delimiters of s from p on, counted left to right without overlap
RECURSIVE DelimitersFrom(_, _, _)
DelimitersFrom(s, p, delim) ==
    LET dp == find(s, delim, p)
    IN  IF dp = -1 THEN 0 ELSE 1 + DelimitersFrom(s, dp + Len(delim), delim)

\* no qualifier stands at the start of the line or right after a delimiter
C26_NoFieldOpensQualified ==
    /\ ~StartsAt(line, 0, qualifier)
    /\ \A p \in 0 .. (Len(line) - 1) :
           StartsAt(line, p, delimiter) =>
               ~StartsAt(line, p + Len(delimiter), qualifier)

\* C26: a qualifier opens a qualified field in count_columns of
\* data_shifting.py only at the start of the line or right after a
\* delimiter: on a line where no qualifier stands at such a place every
\* qualifier is literal content, and every delimiter of the line is counted
\* as a field boundary.
C26_QualifierOpensAtFieldStart ==
    (called = "count_columns" /\ C26_NoFieldOpensQualified) =>
        returned.count = 1 + DelimitersFrom(line, 0, delimiter)

\* the places w at or after p such that only whitespace lies between p and w
\* and the delimiter stands at w
C27_DelimiterAfterSpace(s, p, delim) ==
    {w \in p .. (Len(s) - 1) :
        /\ StartsAt(s, w, delim)
        /\ \A k \in p .. (w - 1) : isspace(At(s, k))}

\* C27: whitespace-tolerant close in count_columns of data_shifting.py, for
\* every delimiter, the tab included: on a line that begins with a qualified
\* field, the first qualifier after the opening one closes the field when
\* whitespace and then the delimiter follow it, and that delimiter is one
\* field boundary: the count is 1 plus the count of what follows the
\* delimiter; when only whitespace follows it up to the end of the line, the
\* count is 1.
C27_WhitespaceTolerantClose ==
    (called = "count_columns"
        /\ StartsAt(line, 0, qualifier)
        /\ find(line, qualifier, Len(qualifier)) # -1) =>
        LET after == find(line, qualifier, Len(qualifier)) + Len(qualifier)
            ws == C27_DelimiterAfterSpace(line, after, delimiter)
        IN  /\ ws # {} =>
                   returned.count =
                       1 + count_columns(Slice(line, Min(ws) + Len(delimiter), Len(line)),
                                         delimiter, qualifier)
            /\ (ws = {} /\ \A k \in after .. (Len(line) - 1) : isspace(At(line, k))) =>
                   returned.count = 1

\* what the loop has still to scan
C28_Remaining == Len(scan.fixed_line) - scan.current_pos

\* every iteration of a scanning loop moves the scan position forward and
\* leaves less to scan; every iteration of the loop that skips whitespace
\* moves next_pos forward, within the line, and the scan position stays
\* where it is meanwhile
C28_Advance ==
    /\ (scan.at \in {"loop", "close"} /\ scan'.at = "loop") =>
           /\ scan'.current_pos > scan.current_pos
           /\ C28_Remaining' < C28_Remaining
           /\ C28_Remaining' >= 0
    /\ (scan.at = "skip" /\ scan'.at = "skip") =>
           /\ scan'.next_pos > scan.next_pos
           /\ scan'.next_pos <= Len(scan.fixed_line)
    /\ (scan.at \in {"loop", "skip"} /\ scan'.at \in {"skip", "close"}) =>
           /\ scan'.current_pos = scan.current_pos
           /\ scan'.fixed_line = scan.fixed_line

\* what the function returns when its loop has ended
C28_Returns ==
    scan.at = "done" =>
        /\ called = "fix_embedded_quotes" =>
               returned.text = fix_embedded_quotes(line, delimiter, qualifier)
        /\ called = "count_columns" =>
               returned.count = count_columns(line, delimiter, qualifier)
        /\ called = "clean_qualified_content" =>
               returned.text = clean_qualified_content(line, delimiter, qualifier)
        /\ called = "is_line_complete" =>
               returned.flag = is_line_complete(line, delimiter, qualifier)

\* C28: scanner termination: fix_embedded_quotes, count_columns and
\* clean_qualified_content of data_shifting.py and is_line_complete of
\* data_shifting_final.py end on every line, for non-empty delimiter and
\* qualifier: every iteration of their loops strictly advances the scan
\* position and shrinks what is left to scan, so that every call returns.
C28_ScannerTermination ==
    /\ [][C28_Advance]_vars
    /\ [](called # "none" => <>(scan.at = "done"))
    /\ []C28_Returns

\* fix_embedded_quotes returned after its loop had rewritten an inch mark,
\* which makes the line longer
C28_Witness ==
    /\ called = "fix_embedded_quotes" /\ scan.at = "done"
    /\ Len(returned.text) > Len(line)
    /\ scan.current_pos > Len(line)

\* C29: the column count is monotone under merging (data_shifting.py):
\* count_columns(P + ' ' + S) >= count_columns(P) for all lines P and S, so
\* that a candidate with more columns than a header count does not come down
\* to it by appending a line.
C29_CountMonotoneUnderMerging ==
    called = "count_columns_joined" =>
        /\ returned.count >= count_columns(line, delimiter, qualifier)
        /\ \A wanted \in 1 .. MaxTokens :
               count_columns(line, delimiter, qualifier) > wanted =>
                   returned.count # wanted

\* a line was appended after a candidate of several columns that ended
\* inside a quoted field, and the count went up
C29_Witness ==
    /\ called = "count_columns_joined"
    /\ count_columns(line, delimiter, qualifier) = 2
    /\ in_quote_at_end(line, 0, FALSE, delimiter, qualifier)
    /\ returned.count = 3

\* no digit of the line is immediately followed by a double-quote character
NoDigitBeforeDoubleQuote(s) ==
    \A p \in 0 .. (Len(s) - 2) : ~(isdigit(At(s, p)) /\ At(s, p + 1) = "\"")

====
